---- MODULE Spec2Model ----
(***************************************************************************)
(* kopf/structs/lastseen.py: the "essence" of a resource body, its storage *)
(* in the last-handled-configuration annotation, and the refresh of that   *)
(* annotation through a patch.                                             *)
(*                                                                         *)
(* Python objects are tagged trees: None, a number, a string or a mapping  *)
(* with string keys.  A string value is a sequence of tokens: the JSON     *)
(* punctuation characters, the space, and words (runs of other characters, *)
(* kept whole).  Keys are words.                                           *)
(***************************************************************************)
EXTENDS Integers, Sequences, FiniteSets, TLC

VARIABLES
    body,       \* the resource as last observed
    patch,      \* the patch being accumulated for it
    prevBody,   \* the body before the last operation
    prevPatch,  \* the patch before the last operation
    last,       \* the last operation: its arguments and what it returned
    steps       \* the number of operations so far

vars == <<body, patch, prevBody, prevPatch, last, steps>>

---------------------------------------------------------------------------
(* Python values *)

None == [t |-> "none", s |-> <<>>, m |-> <<>>]

Num(w) == [t |-> "num", s |-> <<w>>, m |-> <<>>]

Str(s) == [t |-> "str", s |-> s, m |-> <<>>]

Map(f) == [t |-> "map", s |-> <<>>, m |-> IF DOMAIN f = {} THEN <<>> ELSE f]

EmptyMap == Map(<<>>)

Word(w) == Str(<<w>>)

KV(k, v) == [x \in {k} |-> v]

IsMap(v) == v.t = "map"

\* key in d
Has(d, k) == IsMap(d) /\ k \in DOMAIN d.m

\* d[key] = v
Put(d, k, v) == Map([x \in DOMAIN d.m \cup {k} |-> IF x = k THEN v ELSE d.m[x]])

\* del d[key]
Del(d, k) == Map([x \in DOMAIN d.m \ {k} |-> d.m[x]])

\* d.get(key, {})
GetOrEmpty(d, k) == IF Has(d, k) THEN d.m[k] ELSE EmptyMap

\* not d, for a mapping
IsEmpty(d) == IsMap(d) /\ DOMAIN d.m = {}

---------------------------------------------------------------------------
(* json.dumps and json.loads over token sequences *)

QUOTE == "\""

BSL == "\\"

SP == " "

NumWords == {"1", "2"}

RECURSIVE Escape(_)
\* The body of a JSON string literal: the quote and the backslash are escaped.
Escape(s) ==
    IF s = <<>> THEN <<>>
    ELSE (IF Head(s) \in {QUOTE, BSL} THEN <<BSL, Head(s)>> ELSE <<Head(s)>>)
         \o Escape(Tail(s))

RECURSIVE Dumps(_)
RECURSIVE DumpItems(_, _)
\* The members of mapping d with keys ks, separated by ", ".  The order of the
\* members is that of the dictionary; it is fixed for a given mapping.
DumpItems(d, ks) ==
    IF ks = {} THEN <<>>
    ELSE LET k == CHOOSE x \in ks : TRUE
             rest == ks \ {k}
         IN  <<QUOTE, k, QUOTE, ":", SP>> \o Dumps(d.m[k])
             \o (IF rest = {} THEN <<>> ELSE <<",", SP>> \o DumpItems(d, rest))

Dumps(v) ==
    CASE v.t = "none" -> <<"null">>
      [] v.t = "num"  -> v.s
      [] v.t = "str"  -> <<QUOTE>> \o Escape(v.s) \o <<QUOTE>>
      [] v.t = "map"  -> <<"{">> \o DumpItems(v, DOMAIN v.m) \o <<"}">>

\* A parse result: ok, the value, and the position after it.
Fail == [ok |-> FALSE, v |-> None, i |-> 0]

Got(v, i) == [ok |-> TRUE, v |-> v, i |-> i]

RECURSIVE SkipWs(_, _)
SkipWs(t, i) == IF i <= Len(t) /\ t[i] = SP THEN SkipWs(t, i + 1) ELSE i

RECURSIVE Concat(_)
\* The characters of a token sequence as one word (a key).
Concat(s) == IF s = <<>> THEN "" ELSE Head(s) \o Concat(Tail(s))

RECURSIVE ParseStr(_, _, _)
\* A string literal's body from position i (after the opening quote): up to the
\* closing quote, a backslash escaping the quote or the backslash after it.
ParseStr(t, i, acc) ==
    IF i <= Len(t) /\ t[i] \notin {QUOTE, BSL}
    THEN ParseStr(t, i + 1, Append(acc, t[i]))
    ELSE IF i > Len(t) THEN Fail
    ELSE IF t[i] = QUOTE THEN Got(Str(acc), i + 1)
    ELSE IF i + 1 <= Len(t) /\ t[i + 1] \in {QUOTE, BSL}
         THEN ParseStr(t, i + 2, Append(acc, t[i + 1]))
    ELSE Fail

RECURSIVE ParseVal(_, _)
RECURSIVE ParseMembers(_, _, _)
\* The members of an object from position i (at a key's opening quote), added
\* to acc; a repeated key keeps its last value.
ParseMembers(t, i, acc) ==
    IF i > Len(t) \/ t[i] # QUOTE THEN Fail
    ELSE LET k == ParseStr(t, i + 1, <<>>)
         IN  IF ~k.ok THEN Fail
             ELSE LET c == SkipWs(t, k.i)
                  IN  IF c > Len(t) \/ t[c] # ":" THEN Fail
                      ELSE LET v == ParseVal(t, SkipWs(t, c + 1))
                           IN  IF ~v.ok THEN Fail
                               ELSE LET e == SkipWs(t, v.i)
                                        acc2 == Put(acc, Concat(k.v.s), v.v)
                                    IN  IF e > Len(t) THEN Fail
                                        ELSE IF t[e] = "}" THEN Got(acc2, e + 1)
                                        ELSE IF t[e] = ","
                                             THEN ParseMembers(t, SkipWs(t, e + 1), acc2)
                                        ELSE Fail

ParseVal(t, i) ==
    IF i > Len(t) THEN Fail
    ELSE IF t[i] = "{"
         THEN LET j == SkipWs(t, i + 1)
              IN  IF j <= Len(t) /\ t[j] = "}" THEN Got(EmptyMap, j + 1)
                  ELSE ParseMembers(t, j, EmptyMap)
    ELSE IF t[i] = QUOTE THEN ParseStr(t, i + 1, <<>>)
    ELSE IF t[i] = "null" THEN Got(None, i + 1)
    ELSE IF t[i] \in NumWords THEN Got(Num(t[i]), i + 1)
    ELSE Fail

\* json.loads: one value, with nothing but whitespace around it.
Loads(t) ==
    LET r == ParseVal(t, SkipWs(t, 1))
    IN  IF r.ok /\ SkipWs(t, r.i) = Len(t) + 1 THEN r ELSE Fail

---------------------------------------------------------------------------
(* kopf.structs.dicts: field paths are sequences of keys *)

RECURSIVE Resolve(_, _)
\* The value at a path of d, if every key on the way exists.
Resolve(d, path) ==
    IF path = <<>> THEN [ok |-> TRUE, v |-> d]
    ELSE IF Has(d, Head(path)) THEN Resolve(d.m[Head(path)], Tail(path))
    ELSE [ok |-> FALSE, v |-> None]

RECURSIVE Ensure(_, _, _)
\* d with the value set at the path, the mappings on the way created as needed.
Ensure(d, path, value) ==
    IF Len(path) = 1 THEN Put(d, path[1], value)
    ELSE Put(d, Head(path), Ensure(GetOrEmpty(d, Head(path)), Tail(path), value))

RECURSIVE Cherrypick(_, _, _)
\* dst with every field of fields that src has copied into it, in order.
Cherrypick(src, dst, fields) ==
    IF fields = <<>> THEN dst
    ELSE LET r == Resolve(src, Head(fields))
             d == IF r.ok THEN Ensure(dst, Head(fields), r.v) ELSE dst
         IN  Cherrypick(src, d, Tail(fields))

---------------------------------------------------------------------------
(* kopf.structs.diffs *)

DiffItem(op, path, old, new) == [op |-> op, path |-> path, old |-> old, new |-> new]

RECURSIVE DiffAt(_, _, _)
DiffAt(a, b, path) ==
    IF a = b THEN {}
    ELSE IF a = None THEN {DiffItem("add", path, a, b)}
    ELSE IF b = None THEN {DiffItem("remove", path, a, b)}
    ELSE IF IsMap(a) /\ IsMap(b)
         THEN UNION {DiffAt(IF Has(a, k) THEN a.m[k] ELSE None,
                            IF Has(b, k) THEN b.m[k] ELSE None,
                            Append(path, k)) : k \in DOMAIN a.m \cup DOMAIN b.m}
    ELSE {DiffItem("change", path, a, b)}

Diff(a, b) == DiffAt(a, b, <<>>)

---------------------------------------------------------------------------
(* kopf.structs.lastseen *)

BASE_LAST_SEEN_ANNOTATION == "kopf.zalando.org/last-handled-configuration"

KUBECTL_ANNOTATION == "kubectl.kubernetes.io/last-applied-configuration"

\* The prefix is a string; "" stands for None and for the empty prefix alike.
last_seen_annotation(prefix) ==
    IF prefix # "" THEN prefix \o "." \o BASE_LAST_SEEN_ANNOTATION
    ELSE BASE_LAST_SEEN_ANNOTATION

\* Lines 57-61: the identifying fields are dropped.
DropIdentity(essence) ==
    LET e1 == IF Has(essence, "apiVersion") THEN Del(essence, "apiVersion") ELSE essence
    IN  IF Has(e1, "kind") THEN Del(e1, "kind") ELSE e1

\* The status stanza is left in the essence.
PurgeSystem_KeepStatus(essence) ==
    IF Has(essence, "metadata") THEN Del(essence, "metadata") ELSE essence

\* Lines 63-67: the metadata and status stanzas are purged.
PurgeSystem(essence) ==
    LET e1 == IF Has(essence, "metadata") THEN Del(essence, "metadata") ELSE essence
    IN  IF Has(e1, "status") THEN Del(e1, "status") ELSE e1

\* Lines 69-73: labels and annotations are picked back from the body.
PickMetadata(b, essence) ==
    Cherrypick(b, essence, <<(<<"metadata", "labels">>), (<<"metadata", "annotations">>)>>)

\* Lines 75-81: the two garbage annotations are deleted from the essence's
\* annotations, when it has any.
DropGarbageAnnotations(essence, prefix) ==
    LET metadata == GetOrEmpty(essence, "metadata")
        annotations == GetOrEmpty(metadata, "annotations")
        garbage == {last_seen_annotation(prefix), KUBECTL_ANNOTATION}
        kept == Map([a \in DOMAIN annotations.m \ garbage |-> annotations.m[a]])
    IN  IF Has(essence, "metadata") /\ Has(metadata, "annotations")
        THEN Put(essence, "metadata", Put(metadata, "annotations", kept))
        ELSE essence

\* The extra fields are not restored.
RestoreExtraFields_Skipped(b, essence, extra_fields) == essence

\* Lines 83-84: the extra fields are restored from the body.
RestoreExtraFields(b, essence, extra_fields) == Cherrypick(b, essence, extra_fields)

\* The metadata emptied of its annotations is left in the essence.
CleanupEmpty_KeepMetadata(essence) ==
    LET e1 == IF Has(GetOrEmpty(essence, "metadata"), "annotations")
                 /\ IsEmpty(essence.m["metadata"].m["annotations"])
              THEN Put(essence, "metadata", Del(essence.m["metadata"], "annotations"))
              ELSE essence
    IN  IF Has(e1, "status") /\ IsEmpty(e1.m["status"]) THEN Del(e1, "status") ELSE e1

\* Lines 86-92: annotations, metadata and status are removed when empty.
CleanupEmpty(essence) ==
    LET e1 == IF Has(GetOrEmpty(essence, "metadata"), "annotations")
                 /\ IsEmpty(essence.m["metadata"].m["annotations"])
              THEN Put(essence, "metadata", Del(essence.m["metadata"], "annotations"))
              ELSE essence
        e2 == IF Has(e1, "metadata") /\ IsEmpty(e1.m["metadata"])
              THEN Del(e1, "metadata") ELSE e1
    IN  IF Has(e2, "status") /\ IsEmpty(e2.m["status"]) THEN Del(e2, "status") ELSE e2

get_essence(b, prefix, extra_fields) ==
    LET e1 == PurgeSystem(DropIdentity(b))
        e2 == PickMetadata(b, e1)
        e3 == DropGarbageAnnotations(e2, prefix)
        e4 == RestoreExtraFields(b, e3, extra_fields)
    IN  CleanupEmpty(e4)

\* The annotation is looked up without the prefix.
has_essence_stored_NoPrefix(b, prefix) ==
    LET annotations == GetOrEmpty(GetOrEmpty(b, "metadata"), "annotations")
    IN  Has(annotations, BASE_LAST_SEEN_ANNOTATION)

has_essence_stored(b, prefix) ==
    LET annotations == GetOrEmpty(GetOrEmpty(b, "metadata"), "annotations")
    IN  Has(annotations, last_seen_annotation(prefix))

\* Text that does not decode is taken for no stored essence.
retrieve_essence_Lenient(b, prefix) ==
    LET essence_str == Resolve(b, <<"metadata", "annotations", last_seen_annotation(prefix)>>)
    IN  IF has_essence_stored(b, prefix) /\ essence_str.ok /\ Loads(essence_str.v.s).ok
        THEN [err |-> "", v |-> Loads(essence_str.v.s).v]
        ELSE [err |-> "", v |-> None]

\* The stored essence, None when there is none, or the error raised: by the
\* subscription of the body, or by json.loads.
retrieve_essence(b, prefix) ==
    IF ~has_essence_stored(b, prefix) THEN [err |-> "", v |-> None]
    ELSE LET essence_str == Resolve(b, <<"metadata", "annotations", last_seen_annotation(prefix)>>)
             essence_obj == Loads(essence_str.v.s)
         IN  IF ~essence_str.ok THEN [err |-> "KeyError", v |-> None]
             ELSE IF essence_obj.ok THEN [err |-> "", v |-> essence_obj.v]
             ELSE [err |-> "JSONDecodeError", v |-> None]

get_essential_diffs(b, prefix, extra_fields) ==
    LET old == retrieve_essence(b, prefix)
        new == get_essence(b, prefix, extra_fields)
    IN  IF old.err # "" THEN [err |-> old.err, old |-> None, new |-> None, diff |-> {}]
        ELSE [err |-> "", old |-> old.v, new |-> new, diff |-> Diff(old.v, new)]

\* The new essence is compared with the annotation's text, not with what the
\* text decodes to.
refresh_essence_Undecoded(b, p, extra_fields, prefix) ==
    LET essence_str == Resolve(b, <<"metadata", "annotations", last_seen_annotation(prefix)>>)
        old_essence == IF essence_str.ok THEN essence_str.v ELSE None
        new_essence == get_essence(b, prefix, extra_fields)
        metadata == GetOrEmpty(p, "metadata")
        annotations == GetOrEmpty(metadata, "annotations")
        written == Put(annotations, last_seen_annotation(prefix), Str(Dumps(new_essence)))
    IN  [err |-> "", old |-> old_essence, new |-> new_essence,
         patch |-> IF new_essence # old_essence
                   THEN Put(p, "metadata", Put(metadata, "annotations", written))
                   ELSE p]

\* The patch's annotations are set up before the essences are compared.
refresh_essence_Eager(b, p, extra_fields, prefix) ==
    LET old_essence == retrieve_essence(b, prefix)
        new_essence == get_essence(b, prefix, extra_fields)
        metadata == GetOrEmpty(p, "metadata")
        annotations == GetOrEmpty(metadata, "annotations")
        written == Put(annotations, last_seen_annotation(prefix), Str(Dumps(new_essence)))
    IN  IF old_essence.err # ""
        THEN [err |-> old_essence.err, patch |-> p, old |-> None, new |-> None]
        ELSE [err |-> "", old |-> old_essence.v, new |-> new_essence,
              patch |-> IF new_essence # old_essence.v
                        THEN Put(p, "metadata", Put(metadata, "annotations", written))
                        ELSE Put(p, "metadata", Put(metadata, "annotations", annotations))]

\* The patch after refresh_essence, with the error raised, if any, and the two
\* essences compared.
refresh_essence(b, p, extra_fields, prefix) ==
    LET old_essence == retrieve_essence(b, prefix)
        new_essence == get_essence(b, prefix, extra_fields)
        metadata == GetOrEmpty(p, "metadata")
        annotations == GetOrEmpty(metadata, "annotations")
        written == Put(annotations, last_seen_annotation(prefix), Str(Dumps(new_essence)))
    IN  IF old_essence.err # ""
        THEN [err |-> old_essence.err, patch |-> p, old |-> None, new |-> None]
        ELSE [err |-> "", old |-> old_essence.v, new |-> new_essence,
              patch |-> IF new_essence # old_essence.v
                        THEN Put(p, "metadata", Put(metadata, "annotations", written))
                        ELSE p]

---------------------------------------------------------------------------
(* Inputs *)

\* Prefixes of the tracking annotation; "" is the call without a prefix.
Prefixes == {"", "p", "q"}

STATUS_PHASE == <<"status", "phase">>

STATUS_NOPE == <<"status", "nope">>

META_ANNOTATIONS == <<"metadata", "annotations">>

\* The extra_fields sequences the operations are called with.
ExtraFieldSets ==
    { <<>>, <<STATUS_PHASE>>, <<STATUS_NOPE>>, <<STATUS_PHASE, STATUS_NOPE>>,
      <<META_ANNOTATIONS>> }

\* Text that json.loads rejects.
NOT_VALID == <<"{", "not", SP, "valid", "}">>

Identity == KV("apiVersion", Word("v1")) @@ KV("kind", Word("Pod"))

SpecOf(x) == KV("spec", Map(KV("x", Word(x))))

Annotated(k, text) == Map(KV("annotations", Map(KV(k, Str(text)))))

\* A body with the tracking annotation of the prefix set to the text.
WithAnnotation(b, k, text) ==
    Ensure(b, <<"metadata", "annotations", k>>, Str(text))

\* A body carrying, as its stored essence, its own essence.
Handled(b, prefix, extra_fields) ==
    WithAnnotation(b, last_seen_annotation(prefix), Dumps(get_essence(b, prefix, extra_fields)))

Metadatas ==
    { <<>>,
      KV("metadata", Map(KV("uid", Word("u1")))),
      KV("metadata", Map(KV("labels", EmptyMap))),
      KV("metadata", Map(KV("labels", Map(KV("app", Word("web")))))),
      KV("metadata", Map(KV("annotations", EmptyMap))),
      KV("metadata", Annotated("note", <<"a", QUOTE, BSL>>)),
      KV("metadata", Annotated(KUBECTL_ANNOTATION, <<"cfg">>)),
      KV("metadata", Annotated(last_seen_annotation(""), NOT_VALID)),
      KV("metadata", Annotated(last_seen_annotation("p"), <<"{", "}">>)),
      KV("metadata", Map(KV("uid", Word("u1"))
                         @@ KV("labels", Map(KV("app", Word("web"))))
                         @@ KV("annotations", Map(KV("note", Word("n"))
                                                  @@ KV(KUBECTL_ANNOTATION, Word("cfg")))))) }

Statuses ==
    { <<>>,
      KV("status", EmptyMap),
      KV("status", Map(KV("phase", Word("Running")))),
      KV("status", Map(KV("phase", Word("Running")) @@ KV("seen", Num("1")))) }

\* The bodies the pure operations are applied to.
Bodies ==
    LET plain == { Map(i @@ md @@ SpecOf("a") @@ st) :
                     i \in {<<>>, Identity}, md \in Metadatas, st \in Statuses }
    IN  plain \cup { Handled(b, "", <<>>) : b \in plain }

\* The bodies the reconciliation starts from.
StartBodies ==
    { Map(Identity),
      Map(Identity @@ SpecOf("a")),
      Map(Identity @@ SpecOf("a") @@ KV("status", Map(KV("phase", Word("Running"))))),
      Map(Identity @@ KV("data", Map(KV("n", Num("1")) @@ KV("z", None)))
          @@ KV("metadata", Map(KV("uid", Word("u1")) @@ KV("labels", EmptyMap)))),
      Map(Identity @@ SpecOf("a")
          @@ KV("metadata", Annotated("note", <<"a", QUOTE, BSL>>))),
      Map(Identity @@ SpecOf("a")
          @@ KV("metadata", Annotated(last_seen_annotation("p"), NOT_VALID))),
      Handled(Map(Identity @@ SpecOf("a")
                  @@ KV("status", Map(KV("phase", Word("Running"))))), "p", <<>>) }

\* The patches a reconciliation pass starts with: handlers may have staged
\* changes of their own before the essence is refreshed.
StartPatches ==
    { EmptyMap,
      Map(KV("metadata", EmptyMap)),
      Map(KV("status", Map(KV("phase", Word("Done"))))
          @@ KV("metadata", Map(KV("labels", Map(KV("app", Word("db"))))
                                @@ KV("annotations", Map(KV("other", Word("v"))))))) }

---------------------------------------------------------------------------
(* The record of the last operation: its arguments and what it returned *)

Returned(op, prefix, extra_fields, err, stored, old, new, diff, chain) ==
    [op |-> op, prefix |-> prefix, xf |-> extra_fields, err |-> err,
     stored |-> stored, old |-> old, new |-> new, diff |-> diff, chain |-> chain]

NoCall == Returned("none", "", <<>>, "", FALSE, None, None, {}, 0)

Frame(op) ==
    /\ prevBody' = body
    /\ prevPatch' = patch
    /\ UNCHANGED <<body, patch, steps>>

---------------------------------------------------------------------------
(* The pure operations *)

GetEssence(prefix, extra_fields) ==
    /\ last' = Returned("get_essence", prefix, extra_fields, "", FALSE, None,
                        get_essence(body, prefix, extra_fields), {}, 0)
    /\ Frame("get_essence")

HasEssenceStored(prefix) ==
    /\ last' = Returned("has_essence_stored", prefix, <<>>, "",
                        has_essence_stored(body, prefix), None, None, {}, 0)
    /\ Frame("has_essence_stored")

RetrieveEssence(prefix) ==
    LET r == retrieve_essence(body, prefix)
    IN  /\ last' = Returned("retrieve_essence", prefix, <<>>, r.err, FALSE, r.v, None, {}, 0)
        /\ Frame("retrieve_essence")

GetEssentialDiffs(prefix, extra_fields) ==
    LET r == get_essential_diffs(body, prefix, extra_fields)
    IN  /\ last' = Returned("get_essential_diffs", prefix, extra_fields, r.err, FALSE,
                            r.old, r.new, r.diff, 0)
        /\ Frame("get_essential_diffs")

PureInit ==
    /\ body \in Bodies
    /\ patch = EmptyMap
    /\ prevBody = body
    /\ prevPatch = patch
    /\ last = NoCall
    /\ steps = 0

PureNext ==
    \/ \E prefix \in Prefixes, xf \in ExtraFieldSets : GetEssence(prefix, xf)
    \/ \E prefix \in Prefixes : HasEssenceStored(prefix)
    \/ \E prefix \in Prefixes : RetrieveEssence(prefix)
    \/ \E prefix \in Prefixes, xf \in ExtraFieldSets : GetEssentialDiffs(prefix, xf)

\* The operations without side effects, over the bodies of Bodies.
PureSpec == PureInit /\ [][PureNext]_vars

---------------------------------------------------------------------------
(* A reconciliation: the essence is refreshed into the patch, the patch is *)
(* applied to the resource, and the resource changes under the operator.   *)

MaxSteps == 3

MaxText == 90

\* The prefixes and extra fields the handlers of the operator track.
Tracked == {"", "p"}

TrackedFields == { <<>>, <<STATUS_PHASE>>, <<META_ANNOTATIONS>> }

NoiseKinds == {"identity", "status", "uid", "kubectl", "untrack", "corrupt"}

PatchAnnotations(p) == GetOrEmpty(GetOrEmpty(p, "metadata"), "annotations")

\* The patch that stages nothing but the tracking annotation of the prefix.
OnlyStaged(prefix, text) ==
    Ensure(EmptyMap, <<"metadata", "annotations", last_seen_annotation(prefix)>>, Str(text))

RefreshEssence(prefix, extra_fields) ==
    LET r == refresh_essence(body, patch, extra_fields, prefix)
        again == last.op = "apply_patch" /\ last.chain = 2
                 /\ last.prefix = prefix /\ last.xf = extra_fields
        first == r.err = "" /\ r.patch = OnlyStaged(prefix, Dumps(r.new))
    IN  /\ steps < MaxSteps
        /\ r.err = "" => Len(Dumps(r.new)) <= MaxText
        /\ patch' = r.patch
        /\ last' = Returned("refresh_essence", prefix, extra_fields, r.err, FALSE,
                            r.old, r.new, {},
                            IF again THEN 3 ELSE IF first THEN 1 ELSE 0)
        /\ prevBody' = body
        /\ prevPatch' = patch
        /\ steps' = steps + 1
        /\ UNCHANGED body

RECURSIVE Merge(_, _)
\* The resource with a merge-patch applied: mappings are merged key by key,
\* anything else is replaced.
Merge(b, p) ==
    IF IsMap(b) /\ IsMap(p)
    THEN Map([k \in DOMAIN b.m \cup DOMAIN p.m |->
                IF k \notin DOMAIN p.m THEN b.m[k]
                ELSE IF k \notin DOMAIN b.m THEN p.m[k]
                ELSE Merge(b.m[k], p.m[k])])
    ELSE p

\* The patch is submitted; the next pass sees the patched resource and starts
\* with an empty patch.
ApplyPatch ==
    /\ steps < MaxSteps
    /\ ~IsEmpty(patch)
    /\ body' = Merge(body, patch)
    /\ patch' = EmptyMap
    /\ last' = IF last.op = "refresh_essence" /\ last.chain = 1
               THEN Returned("apply_patch", last.prefix, last.xf, "", FALSE, None, None, {}, 2)
               ELSE Returned("apply_patch", "", <<>>, "", FALSE, None, None, {}, 0)
    /\ prevBody' = body
    /\ prevPatch' = patch
    /\ steps' = steps + 1

\* The user changes the resource's spec.
EditSpec ==
    /\ steps < MaxSteps
    /\ body' = Ensure(body, <<"spec", "x">>, Word("b"))
    /\ body' # body
    /\ last' = Returned("edit", "", <<>>, "", FALSE, None, None, {}, 0)
    /\ prevBody' = body
    /\ prevPatch' = patch
    /\ steps' = steps + 1
    /\ UNCHANGED patch

\* A body after a change of the kind: of the identifying fields, of the status,
\* of a system field of the metadata, of kubectl's annotation, or of the
\* tracking annotation of the prefix.
Noisy(b, kind, prefix) ==
    CASE kind = "identity" -> Put(Del(b, "kind"), "apiVersion", Word("v2"))
      [] kind = "status"   -> Put(b, "status", Map(KV("phase", Word("Failed"))))
      [] kind = "uid"      -> Ensure(b, <<"metadata", "uid">>, Word("u2"))
      [] kind = "kubectl"  -> WithAnnotation(b, KUBECTL_ANNOTATION, <<"cfg2">>)
      [] kind = "untrack"  ->
            IF has_essence_stored(b, prefix)
            THEN Ensure(b, META_ANNOTATIONS,
                        Del(b.m["metadata"].m["annotations"], last_seen_annotation(prefix)))
            ELSE b
      [] kind = "corrupt"  -> WithAnnotation(b, last_seen_annotation(prefix), NOT_VALID)

SystemNoise(kind, prefix) ==
    /\ steps < MaxSteps
    /\ body' = Noisy(body, kind, prefix)
    /\ body' # body
    /\ last' = Returned("noise", IF kind \in {"untrack", "corrupt"} THEN prefix ELSE "",
                        <<kind>>, "", FALSE, None, None, {}, 0)
    /\ prevBody' = body
    /\ prevPatch' = patch
    /\ steps' = steps + 1
    /\ UNCHANGED patch

Init ==
    /\ body \in StartBodies
    /\ patch \in StartPatches
    /\ prevBody = body
    /\ prevPatch = patch
    /\ last = NoCall
    /\ steps = 0

Next ==
    \/ \E prefix \in Tracked, xf \in TrackedFields : RefreshEssence(prefix, xf)
    \/ ApplyPatch
    \/ EditSpec
    \/ \E kind \in NoiseKinds, prefix \in Tracked : SystemNoise(kind, prefix)

Spec == Init /\ [][Next]_vars

---------------------------------------------------------------------------
(* Properties *)

IsCall(op) == last.op = op

\* The tracking annotation of the prefix on a body: whether it is there, and
\* its text.
Tracking(b, prefix) ==
    Resolve(b, <<"metadata", "annotations", last_seen_annotation(prefix)>>)

EssenceAnnotations(essence) == GetOrEmpty(GetOrEmpty(essence, "metadata"), "annotations")

\* refresh_essence on the body, with an empty patch, stages nothing.
IsNoOp(b, prefix, extra_fields) ==
    LET r == refresh_essence(b, EmptyMap, extra_fields, prefix)
    IN  r.err = "" /\ r.patch = EmptyMap

\* C1: a refresh_essence that follows the refresh-and-apply of the same prefix
\* and extra fields, on a body changed by nothing but the staged annotation,
\* leaves the patch as it was.
C1_Idempotence ==
    (IsCall("refresh_essence") /\ last.chain = 3) => patch = prevPatch

\* C2: the essence returned by get_essence never has the keys apiVersion or
\* kind, and its annotations never have the tracking annotation of the prefix
\* nor kubectl's last-applied-configuration, whatever the extra fields.
C2_Exclusion ==
    IsCall("get_essence") =>
        /\ ~Has(last.new, "apiVersion")
        /\ ~Has(last.new, "kind")
        /\ ~Has(EssenceAnnotations(last.new), last_seen_annotation(last.prefix))
        /\ ~Has(EssenceAnnotations(last.new), KUBECTL_ANNOTATION)

\* C3: refresh_essence, when it raises nothing, leaves the patch alone if the
\* fresh essence equals the stored one, and otherwise the patch holds under the
\* tracking annotation a text that decodes to the fresh essence, which
\* retrieve_essence returns from the patched body.
C3_RefreshWritesFresh ==
    (IsCall("refresh_essence") /\ last.err = "") =>
        LET fresh == get_essence(body, last.prefix, last.xf)
            stored == Tracking(body, last.prefix)
            same == stored.ok /\ Loads(stored.v.s).v = fresh
            slot == Tracking(patch, last.prefix)
        IN  /\ same => patch = prevPatch
            /\ ~same =>
                 /\ slot.ok
                 /\ slot.v.t = "str"
                 /\ Loads(slot.v.s) = Got(fresh, Len(slot.v.s) + 1)
                 /\ retrieve_essence(Merge(body, patch), last.prefix) = [err |-> "", v |-> fresh]

\* C3, reached: a refresh on a body that has a stored essence writes the patch,
\* the essence holding an annotation with a quote and a backslash in it.
C3_Witness ==
    /\ IsCall("refresh_essence")
    /\ last.err = ""
    /\ Tracking(body, last.prefix).ok
    /\ patch # prevPatch
    /\ Has(EssenceAnnotations(last.new), "note")

\* C3, reached: with no stored essence, the empty essence is written.
C3_WitnessEmpty ==
    /\ IsCall("refresh_essence")
    /\ last.new = EmptyMap
    /\ ~Tracking(body, last.prefix).ok
    /\ Tracking(patch, last.prefix).v = Str(<<"{", "}">>)

\* C4, as stated: system noise changes neither the essence computed without
\* extra fields nor a refresh_essence that staged nothing into one that does.
C4_NoiseKeepsNoOp ==
    IsCall("noise") =>
        \A prefix \in Prefixes :
            (last.xf[1] \in {"untrack", "corrupt"} => prefix = last.prefix) =>
                /\ get_essence(body, prefix, <<>>) = get_essence(prevBody, prefix, <<>>)
                /\ IsNoOp(prevBody, prefix, <<>>) => IsNoOp(body, prefix, <<>>)

\* C4, amended: system noise does not change the essence computed without
\* extra fields; and when the noise is not in the tracking annotation itself, a
\* refresh_essence that staged nothing before it stages nothing after it.
C4_NoiseKeepsEssence ==
    IsCall("noise") =>
        \A prefix \in Prefixes :
            (last.xf[1] \in {"untrack", "corrupt"} => prefix = last.prefix) =>
                /\ get_essence(body, prefix, <<>>) = get_essence(prevBody, prefix, <<>>)
                /\ (last.xf[1] \notin {"untrack", "corrupt"} /\ IsNoOp(prevBody, prefix, <<>>))
                     => IsNoOp(body, prefix, <<>>)

\* C4, reached: the status of a body changes, and refresh_essence stages
\* nothing before and after.
C4_Witness ==
    /\ IsCall("noise")
    /\ last.xf[1] = "status"
    /\ body # prevBody
    /\ Has(prevBody, "status")
    /\ IsNoOp(prevBody, "p", <<>>)
    /\ IsNoOp(body, "p", <<>>)

\* C5: when the tracking annotation holds text that is not JSON,
\* retrieve_essence, get_essential_diffs and refresh_essence raise the decoding
\* error, and refresh_essence leaves the patch as it was.
C5_ParseErrorPropagates ==
    LET stored == Tracking(body, last.prefix)
    IN  (IsCall("refresh_essence") /\ stored.ok /\ ~Loads(stored.v.s).ok) =>
            /\ last.err = "JSONDecodeError"
            /\ patch = prevPatch
            /\ retrieve_essence(body, last.prefix).err = "JSONDecodeError"
            /\ get_essential_diffs(body, last.prefix, last.xf).err = "JSONDecodeError"

\* C5, reached: refresh_essence raises on the text "{not valid}", the patch
\* holding staged changes.
C5_Witness ==
    /\ IsCall("refresh_essence")
    /\ Tracking(body, last.prefix) = [ok |-> TRUE, v |-> Str(NOT_VALID)]
    /\ last.err = "JSONDecodeError"
    /\ ~IsEmpty(patch)

\* C6: applying the annotation staged by refresh_essence for one prefix changes
\* neither the essence computed under another prefix nor whether
\* refresh_essence under that prefix stages anything.
C6_IndependentPrefixes ==
    (IsCall("apply_patch") /\ last.chain = 2) =>
        \A other \in Prefixes \ {last.prefix}, xf \in ExtraFieldSets :
            /\ get_essence(body, other, xf) = get_essence(prevBody, other, xf)
            /\ IsNoOp(body, other, xf) = IsNoOp(prevBody, other, xf)

C8_SingleSlot ==
    IsCall("refresh_essence") =>
        LET slot == Tracking(patch, last.prefix)
        IN  /\ body = prevBody
            /\ \/ patch = prevPatch
               \/ /\ slot.ok
                  /\ patch = Ensure(prevPatch,
                                    <<"metadata", "annotations", last_seen_annotation(last.prefix)>>,
                                    slot.v)
            /\ (last.err = "" /\ last.new = last.old) => patch = prevPatch

\* C8, reached: refresh_essence writes into a patch that holds another
\* annotation and a status.
C8_Witness ==
    /\ IsCall("refresh_essence")
    /\ patch # prevPatch
    /\ Has(PatchAnnotations(prevPatch), "other")
    /\ Has(PatchAnnotations(patch), "other")
    /\ Has(patch, "status")

\* C8, reached: a refresh that finds the essence unchanged leaves an empty
\* patch empty.
C8_WitnessNoOp ==
    /\ IsCall("refresh_essence")
    /\ last.err = ""
    /\ last.new = last.old
    /\ patch = EmptyMap

WithoutNope(xf) == SelectSeq(xf, LAMBDA f : f # STATUS_NOPE)

\* C9: with status.phase among the extra fields, the essence of a body whose
\* status.phase is "Running" has that phase as its whole status; and a path
\* that the body does not have adds nothing: the essence is the one computed
\* without that path.
C9_ExtraFields ==
    IsCall("get_essence") =>
        /\ (last.xf = <<STATUS_PHASE>>
              /\ Resolve(body, STATUS_PHASE) = [ok |-> TRUE, v |-> Word("Running")]) =>
               /\ Has(last.new, "status")
               /\ last.new.m["status"] = Map(KV("phase", Word("Running")))
        /\ last.new = get_essence(body, last.prefix, WithoutNope(last.xf))
        /\ last.xf = <<STATUS_NOPE>> =>
               /\ ~Has(last.new, "status")
               /\ Has(last.new, "metadata") => ~IsEmpty(last.new.m["metadata"])

\* C9, reached: status.phase is restored from a status that has more fields.
C9_Witness ==
    /\ IsCall("get_essence")
    /\ last.xf = <<STATUS_PHASE>>
    /\ Has(GetOrEmpty(body, "status"), "seen")
    /\ last.new.m["status"] = Map(KV("phase", Word("Running")))

\* C9, reached: a path that the body does not have, beside one it has.
C9_WitnessNope ==
    /\ IsCall("get_essence")
    /\ last.xf = <<STATUS_PHASE, STATUS_NOPE>>
    /\ Has(last.new, "status")

\* C10: on a body without the tracking annotation of the prefix,
\* has_essence_stored is false, retrieve_essence returns None and raises
\* nothing, and get_essential_diffs returns None as the old essence, the
\* essence of get_essence as the new one, and a diff that is the addition of
\* the new essence.
C10_NoPriorState ==
    ~Tracking(body, last.prefix).ok =>
        /\ IsCall("has_essence_stored") => ~last.stored
        /\ IsCall("retrieve_essence") => (last.err = "" /\ last.old = None)
        /\ IsCall("get_essential_diffs") =>
               /\ last.err = ""
               /\ last.old = None
               /\ last.new = get_essence(body, last.prefix, last.xf)
               /\ last.diff = {DiffItem("add", <<>>, None, last.new)}

\* C10, reached: get_essential_diffs under a prefix that has no annotation, on
\* a body that has the annotation of another prefix.
C10_Witness ==
    /\ IsCall("get_essential_diffs")
    /\ ~Tracking(body, last.prefix).ok
    /\ Tracking(body, "").ok
    /\ last.old = None
    /\ Has(last.new, "spec")

====
